---- MODULE Spec2Model ----
(***************************************************************************)
(* dobble: an MPRIS poll loop that scrobbles the playing track to Last.fm  *)
(* and keeps tracks whose scrobble failed in SCROBBLE_QUEUE, which flush   *)
(* threads spawned by push_queued_scrobbles() push later (src/src/main.rs).*)
(*                                                                         *)
(* Text is a sequence of one-character strings; Option<T> is <<>> for None *)
(* and <<v>> for Some(v); durations are whole seconds.                     *)
(***************************************************************************)
EXTENDS Integers, Sequences, FiniteSets, TLC

\* ------------------------------------------------------------ constants
WAIT_FOR_PLAYER_TIME == 5
LOOP_TIME == 1
SCROBBLE_THRESHOLD == 10

\* ------------------------------------------------------------ bounds
\* failed scrobbles that may be waiting for a successful flush at a time
MaxQueue == 2
\* flush threads that may be alive at a time
MaxFlush == 2
\* longest playing_for a tracked tune is followed to
MaxPlayingFor == 11
\* longest time get_player() is followed waiting for a player
MaxWait == 5
\* longest time out of playing_for that is followed exactly
MaxUnplayed == 1
\* longest title try_from is given
MaxTitle == 7
\* longest playing_for of the tracks eq is given
MaxDuration == 1

\* ------------------------------------------------------------ text
\* the separator " - " and the plex prefix "\u{25b6} " of try_from
Separator == <<" ", "-", " ">>
PlexPrefix == <<"▶", " ">>
CommaSpace == <<",", " ">>

\* str::starts_with
StartsWith(s, p) == Len(s) >= Len(p) /\ SubSeq(s, 1, Len(p)) = p

\* positions at which sep occurs in s
Occurrences(s, sep) ==
    {i \in 1..Len(s) : i + Len(sep) - 1 <= Len(s) /\ SubSeq(s, i, i + Len(sep) - 1) = sep}

\* a split at the last occurrence
Splitn2_Last(s, sep) ==
    IF Occurrences(s, sep) = {}
    THEN <<s>>
    ELSE LET i == CHOOSE k \in Occurrences(s, sep) : \A j \in Occurrences(s, sep) : k >= j
         IN  <<SubSeq(s, 1, i - 1), SubSeq(s, i + Len(sep), Len(s))>>

\* str::splitn(2, sep): at most two pieces, cut at the first occurrence
Splitn2(s, sep) ==
    IF Occurrences(s, sep) = {}
    THEN <<s>>
    ELSE LET i == CHOOSE k \in Occurrences(s, sep) : \A j \in Occurrences(s, sep) : k <= j
         IN  <<SubSeq(s, 1, i - 1), SubSeq(s, i + Len(sep), Len(s))>>

\* [&str]::join
RECURSIVE Join(_, _)
Join(v, sep) ==
    IF v = <<>> THEN <<>>
    ELSE IF Len(v) = 1 THEN v[1]
    ELSE v[1] \o sep \o Join(Tail(v), sep)

\* ------------------------------------------------------------ Track
Track(artist, track, album, scrobbled, playing_for) ==
    [artist |-> artist, track |-> track, album |-> album,
     scrobbled |-> scrobbled, playing_for |-> playing_for]

\* Track::as_scrobble
as_scrobble(t) == [artist |-> t.artist, track |-> t.track, album |-> t.album]

\* an eq as #[derive(PartialEq)] would compare the album too
eq_WithAlbum(self, other) ==
    self.track = other.track /\ self.artist = other.artist /\ self.album = other.album

\* impl PartialEq<Track> for Track
eq(self, other) == self.track = other.track /\ self.artist = other.artist

\* the result of try_from: err is <<>> or <<field>>, track is <<>> or <<Track>>
Ok(t) == [err |-> <<>>, track |-> <<t>>]
MissingMetadata(field) == [err |-> <<field>>, track |-> <<>>]

\* impl TryFrom<Metadata> for Track
try_from(metadata) ==
    IF metadata.title = <<>> THEN MissingMetadata("title")
    ELSE
      LET title == metadata.title[1]
          joined == IF metadata.artists = <<>> THEN <<>>
                    ELSE Join(metadata.artists[1], CommaSpace)
          album == IF metadata.album_name = <<>> THEN <<>> ELSE metadata.album_name[1]
      IN  IF joined = <<>>
          THEN LET split == Splitn2(title, Separator)
                   v == split[1]
                   artist == IF StartsWith(v, PlexPrefix)
                             THEN SubSeq(v, Len(PlexPrefix) + 1, Len(v))
                             ELSE v
               IN  IF Len(split) < 2
                   THEN MissingMetadata("artist split from title")
                   ELSE Ok(Track(artist, split[2], album, FALSE, 0))
          ELSE Ok(Track(joined, title, album, FALSE, 0))

\* ------------------------------------------------------------ the player
Metadata(title, artists, album_name) ==
    [title |-> title, artists |-> artists, album_name |-> album_name]

\* what the player may report as metadata in the model
PlayerMetadata ==
    { Metadata(<< <<"T">> >>, << << <<"A">> >> >>, << <<"X">> >>),
      Metadata(<< <<"T">> >>, << << <<"A">> >> >>, << <<"Y">> >>),
      Metadata(<< <<"B", " ", "-", " ", "S">> >>, <<>>, <<>>),
      Metadata(<< <<"N">> >>, <<>>, <<>>) }

\* mpris::PlaybackStatus, and "Error" for a failed get_playback_status()
PlaybackStatus == {"Playing", "Paused", "Stopped", "Error"}

\* ------------------------------------------------------------ state
\* Time: sleep(LOOP_TIME) and the waits of get_player() advance the clocks; a
\* Last.fm call takes no time.  How long an iteration takes has no upper bound, so
\* "last_pushed_queue.elapsed() >= PUSH_QUEUE_INTERVAL" (line 226) may come true at
\* any iteration: the model draws its answer as an input of the iteration.
VARIABLES
    pc,                         \* where main's loop is: "sleep" (223), "push" (133),
                                \* "poll" (232), "find" (103), "enqueue" (122)
    tune,                       \* Option<Track>, main's tune
    since_last_check,           \* now - last_check
    duration_since_last_check,  \* main's local of that name
    SCROBBLE_QUEUE,             \* the Vec<Track> behind the mutex
    lock,                       \* "free", or "flush" while a flush thread holds the mutex
    spawned,                    \* flush threads spawned that have not locked the queue yet
    flush,                      \* the flush thread holding the lock: the queue it read,
                                \* its calls, and "pending", "ok" or "err" for the result
    accepting,                  \* Last.fm accepts every call from now on
    observed,                   \* what this iteration saw of the player
    calls,                      \* the Last.fm calls main made in this iteration
    submits,                    \* scrobble() calls made for the present tune
    undelivered,                \* the scrobbles whose scrobble() failed and that no
                                \* successful flush call has contained since, oldest first
    redelivered,                \* a successful flush call contained a scrobble that was
                                \* not undelivered
    unplayed,                   \* of the time since the tune became main's tune (line
                                \* 284), what is neither in its playing_for nor in
                                \* since_last_check; followed up to MaxUnplayed
    carried,                    \* the time from before the tune became main's tune that
                                \* since_last_check (while playing_for is 0) or
                                \* playing_for holds
    metadata,                   \* Option<Metadata>: the argument try_from is called with
    pair,                       \* <<>> or <<self, other>>: the tracks eq is called with
    result                      \* <<>> or <<v>>: what try_from or eq returned

vars == <<pc, tune, since_last_check, duration_since_last_check,
          SCROBBLE_QUEUE, lock, spawned, flush, accepting, observed, calls, submits,
          undelivered, redelivered, unplayed, carried, metadata, pair, result>>

\* the arguments and the result of the functions called on their own
pure == <<metadata, pair, result>>

NotObserved == [running |-> FALSE, status |-> "", currently_playing |-> <<>>]
NoFlush == [read |-> <<>>, calls |-> <<>>, result |-> "none"]

\* the flush threads alive
Alive == spawned + (IF lock = "flush" THEN 1 ELSE 0)

\* the results a Last.fm call may have
Outcomes == IF accepting THEN {TRUE} ELSE {TRUE, FALSE}

\* main at line 222, before the first iteration
Started ==
    /\ pc = "sleep"
    /\ tune = <<>>
    /\ since_last_check = 0
    /\ duration_since_last_check = 0
    /\ SCROBBLE_QUEUE = <<>>
    /\ lock = "free"
    /\ spawned = 0
    /\ flush = NoFlush
    /\ accepting = FALSE
    /\ observed = NotObserved
    /\ calls = <<>>
    /\ submits = 0
    /\ undelivered = <<>>
    /\ redelivered = FALSE
    /\ unplayed = 0
    /\ carried = 0

Init ==
    /\ Started
    /\ metadata = <<>>
    /\ pair = <<>>
    /\ result = <<>>

\* ------------------------------------------------------------ main's loop
\* sleep(LOOP_TIME) and the test of line 226, answered by due
Slept(due) ==
    /\ pc = "sleep"
    /\ since_last_check' = since_last_check + LOOP_TIME
    /\ pc' = IF due THEN "push" ELSE "poll"
    /\ observed' = NotObserved
    /\ calls' = <<>>
    /\ UNCHANGED <<tune, duration_since_last_check, SCROBBLE_QUEUE, lock, spawned, flush,
                   accepting, submits, undelivered, redelivered, unplayed, carried, pure>>

Sleep == Slept(FALSE)

SleepDue == Slept(TRUE)

\* a should_run that waits for a batch
should_run_batch(queue) == Len(queue) > 1

\* should_run without the "!"
should_run_inverted(queue) == queue = <<>>

\* should_run of line 133
should_run(queue) == queue # <<>>

\* push_queued_scrobbles(): should_run under the lock, then thread::spawn
push_queued_scrobbles ==
    /\ pc = "push"
    /\ lock = "free"
    /\ LET run == should_run(SCROBBLE_QUEUE)
       IN  IF run
           THEN Alive < MaxFlush /\ spawned' = spawned + 1
           ELSE spawned' = spawned
    /\ pc' = "poll"
    /\ UNCHANGED <<tune, since_last_check, duration_since_last_check, SCROBBLE_QUEUE,
                   lock, flush, accepting, observed, calls, submits, undelivered, redelivered,
                   unplayed, carried, pure>>

\* a playing_for that is the time since the tune became the tune
Played_SinceStart(t, d) ==
    [t EXCEPT !.playing_for = t.playing_for + d + unplayed - carried]

\* the tune after "tune.playing_for += duration_since_last_check"
Played(t, d) == [t EXCEPT !.playing_for = t.playing_for + d]

\* the test of line 274 without "!tune.scrobbled"
ShouldScrobble_EveryTick(t) == t.playing_for >= SCROBBLE_THRESHOLD

\* the test of line 274 without the threshold
ShouldScrobble_NoThreshold(t) == ~t.scrobbled

\* the test of line 274
ShouldScrobble(t) == t.playing_for >= SCROBBLE_THRESHOLD /\ ~t.scrobbled

\* a match without the Stopped arm
OnStatus_NoStopped(status) == IF status = "Playing" THEN "go on" ELSE "skip"

\* a match that resets the tune whenever the status is not Playing
OnStatus_NotPlayingResets(status) == IF status = "Playing" THEN "go on" ELSE "reset"

\* the match of lines 243-250 on get_playback_status(): "go on", "reset", "skip"
OnStatus(status) ==
    IF status = "Playing" THEN "go on"
    ELSE IF status = "Stopped" THEN "reset"
    ELSE "skip"

\* a first arm without its guard
SameTune_AnyTune(t, currently_playing) == t # <<>>

\* the arm of the match of line 270 taken with tune t
SameTune(t, currently_playing) == t # <<>> /\ eq(t[1], currently_playing)

\* a second arm that leaves when now_playing() fails
Announced_OrKept(t, currently_playing, ok) == IF ok THEN <<currently_playing>> ELSE t

\* the tune left by the second arm (lines 280-284), whatever now_playing() returned
Announced(t, currently_playing, ok) == <<currently_playing>>

\* a failed get_metadata() or try_from() that drops the tune
Skipped_Reset(t) == <<>>

\* the tune left by the "continue" of lines 257 and 264
Skipped(t) == t

\* the iteration ends without a call: goes back to sleep with tune t, and
\* duration_since_last_check d is added to nothing
Continue(t, d, running, status, converted) ==
    /\ tune' = t
    /\ submits' = IF t = <<>> THEN 0 ELSE submits
    /\ observed' = [running |-> running, status |-> status,
                    currently_playing |-> converted]
    /\ pc' = "sleep"
    /\ carried' = IF t = <<>> \/ t[1].playing_for = 0 THEN 0 ELSE carried
    /\ unplayed' = IF t = <<>> THEN 0
                   ELSE LET out == unplayed + d - (carried - carried')
                        IN  IF out < MaxUnplayed THEN out ELSE MaxUnplayed
    /\ UNCHANGED <<calls, undelivered>>

\* lines 243-286 of main, reached with tune t and duration_since_last_check d;
\* running is what is_running() answered at line 237
Tick(t, d, running) ==
    \E status \in PlaybackStatus :
      /\ duration_since_last_check' = 0
      /\ UNCHANGED <<SCROBBLE_QUEUE, lock, spawned, flush, accepting, redelivered, pure>>
      /\ IF OnStatus(status) = "reset" THEN Continue(<<>>, d, running, status, <<>>)
         ELSE IF OnStatus(status) = "skip" THEN Continue(t, d, running, status, <<>>)
         ELSE \E got \in {<<>>} \cup {<<m>> : m \in PlayerMetadata} :
              LET converted == IF got = <<>> THEN <<>> ELSE <<try_from(got[1])>> IN
              IF got = <<>> \/ converted[1].track = <<>>
              THEN Continue(Skipped(t), d, running, status, converted)
              ELSE LET currently_playing == converted[1].track[1] IN
                   /\ observed' = [running |-> running, status |-> status,
                                   currently_playing |-> converted]
                   /\ IF SameTune(t, currently_playing)
                      THEN LET played == Played(t[1], d) IN
                           /\ played.playing_for <= MaxPlayingFor
                           /\ unplayed' = unplayed
                           /\ carried' = carried
                           /\ IF ShouldScrobble(played)
                              THEN \E ok \in Outcomes :
                                   /\ ok \/ Len(undelivered) < MaxQueue
                                   /\ calls' = Append(calls,
                                          [op |-> "scrobble", ok |-> ok,
                                           scrobble |-> as_scrobble(played)])
                                   /\ submits' = IF submits = 0 THEN 1 ELSE 2
                                   /\ IF ok
                                      THEN /\ tune' = <<[played EXCEPT !.scrobbled = TRUE]>>
                                           /\ pc' = "sleep"
                                           /\ undelivered' = undelivered
                                      ELSE /\ tune' = <<played>>
                                           /\ pc' = "enqueue"
                                           /\ undelivered' =
                                                  Append(undelivered, as_scrobble(played))
                              ELSE /\ tune' = <<played>>
                                   /\ pc' = "sleep"
                                   /\ UNCHANGED <<calls, submits, undelivered>>
                      ELSE \E ok \in Outcomes :
                           /\ calls' = Append(calls,
                                  [op |-> "now_playing", ok |-> ok,
                                   scrobble |-> as_scrobble(currently_playing)])
                           /\ tune' = Announced(t, currently_playing, ok)
                           /\ submits' = 0
                           /\ unplayed' = 0
                           /\ carried' = since_last_check'
                           /\ pc' = "sleep"
                           /\ undelivered' = undelivered

\* lines 232-237: the time since the last iteration, then is_running()
Poll ==
    /\ pc = "poll"
    /\ since_last_check' = 0
    /\ \E running \in BOOLEAN :
         IF running
         THEN Tick(tune, since_last_check, TRUE)
         ELSE /\ pc' = "find"
              /\ duration_since_last_check' = since_last_check
              /\ UNCHANGED <<tune, SCROBBLE_QUEUE, lock, spawned, flush, accepting,
                             observed, calls, submits, undelivered, redelivered,
                             unplayed, carried, pure>>

\* get_player(): find_active() fails, sleep(WAIT_FOR_PLAYER_TIME)
get_player_wait ==
    /\ pc = "find"
    /\ since_last_check + WAIT_FOR_PLAYER_TIME <= MaxWait
    /\ since_last_check' = since_last_check + WAIT_FOR_PLAYER_TIME
    /\ UNCHANGED <<pc, tune, duration_since_last_check, SCROBBLE_QUEUE, lock, spawned,
                   flush, accepting, observed, calls, submits, undelivered, redelivered,
                   unplayed, carried, pure>>

\* a replaced player without "tune = None"
Replaced_Kept(t) == t

\* the tune after line 239
Replaced(t) == <<>>

\* get_player() returns a player; "tune = None" and the rest of the iteration
get_player ==
    /\ pc = "find"
    /\ since_last_check' = since_last_check
    /\ Tick(Replaced(tune), duration_since_last_check, FALSE)

\* line 122 with try_lock(): the track is dropped
Pushed_Dropped(queue, track) == queue

\* the queue after the push of line 122
Pushed(queue, track) == Append(queue, track)

\* the steps of scrobble_enqueue, whoever holds the lock
Enqueue ==
    /\ pc = "enqueue"
    /\ SCROBBLE_QUEUE' = Pushed(SCROBBLE_QUEUE, tune[1])
    /\ tune' = <<[tune[1] EXCEPT !.scrobbled = TRUE]>>
    /\ pc' = "sleep"
    /\ UNCHANGED <<since_last_check, duration_since_last_check, lock, spawned, flush,
                   accepting, observed, calls, submits, undelivered, redelivered,
                   unplayed, carried, pure>>

\* a push that does not wait for the lock
scrobble_enqueue_unlocked == Enqueue

\* scrobble(): the push of line 122 under the lock, then "tune.scrobbled = true"
scrobble_enqueue == lock = "free" /\ Enqueue

\* ------------------------------------------------------------ flush threads
\* a flush thread that always batches
FlushCalls_AlwaysBatch(queue) ==
    << [kind |-> "scrobble_batch",
        batch |-> [i \in 1..Len(queue) |-> as_scrobble(queue[i])]] >>

\* the Last.fm calls of a flush thread that found queue under the lock
FlushCalls(queue) ==
    IF Len(queue) = 1
    THEN << [kind |-> "scrobble", batch |-> <<as_scrobble(queue[1])>>] >>
    ELSE << [kind |-> "scrobble_batch",
             batch |-> [i \in 1..Len(queue) |-> as_scrobble(queue[i])]] >>

\* a flush without queue.clear()
Flushed_Kept(queue, ok) == queue

\* a flush that pops the head before it calls and clears on Ok
Flushed_HeadLost(queue, ok) == IF ok \/ queue = <<>> THEN <<>> ELSE Tail(queue)

\* the queue a flush thread leaves, given the result of its call
Flushed(queue, ok) == IF ok THEN <<>> ELSE queue

\* all the scrobbles of a sequence of calls
RECURSIVE Sent(_)
Sent(cs) == IF cs = <<>> THEN <<>> ELSE cs[1].batch \o Sent(Tail(cs))

\* q without the first occurrence of x
RECURSIVE Remove(_, _)
Remove(q, x) ==
    IF q = <<>> THEN <<>>
    ELSE IF q[1] = x THEN Tail(q)
    ELSE <<q[1]>> \o Remove(Tail(q), x)

\* q without one occurrence of each element of batch
RECURSIVE Without(_, _)
Without(q, batch) ==
    IF batch = <<>> THEN q ELSE Without(Remove(q, batch[1]), Tail(batch))

\* every element of batch is in q, as often as in batch
Within(batch, q) == Len(Without(q, batch)) = Len(q) - Len(batch)

\* the steps of flush_lock, whoever holds the lock
FlushRead ==
    /\ spawned > 0
    /\ lock' = "flush"
    /\ spawned' = spawned - 1
    /\ flush' = [read |-> SCROBBLE_QUEUE, calls |-> FlushCalls(SCROBBLE_QUEUE),
                 result |-> "pending"]
    /\ UNCHANGED <<pc, tune, since_last_check, duration_since_last_check, SCROBBLE_QUEUE,
                   accepting, observed, calls, submits, undelivered, redelivered,
                   unplayed, carried, pure>>

\* a closure that does not wait for the lock
flush_lock_unguarded == FlushRead

\* the spawned closure locks the queue and makes its call
flush_lock == lock = "free" /\ FlushRead

\* the call returns; queue.clear() on Ok
flush_return ==
    /\ lock = "flush"
    /\ flush.result = "pending"
    /\ \E ok \in Outcomes :
         /\ SCROBBLE_QUEUE' = Flushed(SCROBBLE_QUEUE, ok)
         /\ flush' = [flush EXCEPT !.result = IF ok THEN "ok" ELSE "err"]
         /\ undelivered' = IF ok THEN Without(undelivered, Sent(flush.calls))
                           ELSE undelivered
         /\ redelivered' = (redelivered \/ (ok /\ ~Within(Sent(flush.calls), undelivered)))
    /\ UNCHANGED <<pc, tune, since_last_check, duration_since_last_check, lock, spawned,
                   accepting, observed, calls, submits, unplayed, carried, pure>>

\* a guard that is never dropped
Dropped_Leaked == "flush"

\* the lock after the closure ends and its MutexGuard is dropped
Dropped == "free"

\* the closure ends: the guard is dropped
flush_drop ==
    /\ lock = "flush"
    /\ flush.result \in {"ok", "err"}
    /\ lock' = Dropped
    /\ flush' = NoFlush
    /\ UNCHANGED <<pc, tune, since_last_check, duration_since_last_check, SCROBBLE_QUEUE,
                   spawned, accepting, observed, calls, submits, undelivered, redelivered,
                   unplayed, carried, pure>>

\* ------------------------------------------------------------ Last.fm
\* from here on Last.fm accepts every call
Recover ==
    /\ ~accepting
    /\ accepting' = TRUE
    /\ UNCHANGED <<pc, tune, since_last_check, duration_since_last_check,
                   SCROBBLE_QUEUE, lock, spawned, flush, observed, calls, submits,
                   undelivered, redelivered, unplayed, carried, pure>>

Next ==
    \/ Sleep
    \/ SleepDue
    \/ push_queued_scrobbles
    \/ Poll
    \/ get_player_wait
    \/ get_player
    \/ scrobble_enqueue
    \/ flush_lock
    \/ flush_return
    \/ flush_drop

Spec == Init /\ [][Next]_vars

\* a step of main that does not wait for a player
Main == Sleep \/ SleepDue \/ push_queued_scrobbles \/ Poll \/ get_player \/ scrobble_enqueue

\* a step of a flush thread
Flush == flush_lock \/ flush_return \/ flush_drop

\* The scheduling C6 assumes: main and the flush threads keep running, a player
\* is found, the push interval elapses again and again, Last.fm recovers.
Fairness ==
    /\ WF_vars(Main)
    /\ SF_vars(SleepDue)
    /\ WF_vars(Flush)
    /\ WF_vars(Recover)

\* Spec with a Last.fm that recovers
LiveNext == Next \/ Recover

LiveSpec == Init /\ [][LiveNext]_vars /\ Fairness

\* ------------------------------------------------------------ try_from and eq alone
\* the characters of the titles try_from is given
Alphabet == {"B", " ", "-", "▶"}

\* the texts of at most n characters
Texts(n) == UNION {[1..k -> Alphabet] : k \in 0..n}

\* Metadata::artists(): None, Some([]), Some(["A", "C"])
ArtistInputs == { <<>>, << <<>> >>, << << <<"A">>, <<"C">> >> >> }

\* the Metadata try_from is given, with titles of at most n characters
MetadataInputs(n) ==
    { Metadata(title, artists, album_name) :
        title \in {<<>>} \cup {<<t>> : t \in Texts(n)},
        artists \in ArtistInputs,
        album_name \in {<<>>, << <<"X">> >>} }

\* the Tracks eq is given
TrackInputs ==
    { Track(artist, track, album, scrobbled, playing_for) :
        artist \in {<<"A">>, <<"B">>}, track \in {<<"T">>, <<"S">>},
        album \in {<<"X">>, <<"Y">>}, scrobbled \in BOOLEAN,
        playing_for \in 0..MaxDuration }

PureInit ==
    /\ Started
    /\ result = <<>>
    /\ \/ metadata \in {<<m>> : m \in MetadataInputs(MaxTitle)} /\ pair = <<>>
       \/ metadata = <<>> /\ pair \in TrackInputs \X TrackInputs

\* Track::try_from(metadata)
Derive ==
    /\ metadata # <<>>
    /\ result = <<>>
    /\ result' = <<try_from(metadata[1])>>
    /\ UNCHANGED <<pc, tune, since_last_check, duration_since_last_check,
                   SCROBBLE_QUEUE, lock, spawned, flush, accepting, observed, calls,
                   submits, undelivered, redelivered, unplayed, carried,
                   metadata, pair>>

\* "*tune == currently_playing" and the arm of line 271 it selects
Compare ==
    /\ pair # <<>>
    /\ result = <<>>
    /\ result' = << [eq |-> eq(pair[1], pair[2]),
                     same_tune |-> SameTune(<<pair[1]>>, pair[2])] >>
    /\ UNCHANGED <<pc, tune, since_last_check, duration_since_last_check,
                   SCROBBLE_QUEUE, lock, spawned, flush, accepting, observed, calls,
                   submits, undelivered, redelivered, unplayed, carried,
                   metadata, pair>>

PureNext == Derive \/ Compare

PureSpec == PureInit /\ [][PureNext]_vars

\* ------------------------------------------------------------ properties
\* this step ends an iteration: it is the one that looked at the player
Observes == observed.status = "" /\ observed'.status # ""

\* this step makes main's call op
Calls(op) == calls = <<>> /\ calls' # <<>> /\ calls'[1].op = op

Last(q) == q[Len(q)]

\* the scrobbles of the tracks of a queue
Scrobbles(q) == [i \in 1..Len(q) |-> as_scrobble(q[i])]

\* C1: threshold idempotence. While a tune is tracked, the number of scrobble()
\* calls made for it is 1 if its playing_for has reached SCROBBLE_THRESHOLD and 0
\* if not: playing_for only grows while the tune stays, so the call was made on the
\* iteration that reached the threshold and on no later one; the tune counts as
\* scrobbled exactly when the call was made (and, after a failure, enqueued).
C1_ThresholdOnce ==
    /\ tune = <<>> => submits = 0
    /\ tune # <<>> =>
         /\ submits = IF tune[1].playing_for >= SCROBBLE_THRESHOLD THEN 1 ELSE 0
         /\ tune[1].scrobbled <=> (submits = 1 /\ pc # "enqueue")

\* a tune played on past the threshold after its scrobble failed and was queued
C1_Witness ==
    /\ tune # <<>>
    /\ tune[1].playing_for > SCROBBLE_THRESHOLD
    /\ observed.status = "Playing"
    /\ calls = <<>>
    /\ SCROBBLE_QUEUE # <<>>
    /\ eq(Last(SCROBBLE_QUEUE), tune[1])

C3_FlushAtomic ==
    [][ /\ flush.result = "pending" =>
             /\ SCROBBLE_QUEUE = flush.read
             /\ lock = "flush" /\ lock' = "flush"
             /\ flush'.result = "pending" => SCROBBLE_QUEUE' = SCROBBLE_QUEUE
             /\ flush'.result = "err" => SCROBBLE_QUEUE' = flush.read
             /\ flush'.result = "ok" => SCROBBLE_QUEUE' = <<>>
             /\ flush'.result # "none" /\ flush'.read = flush.read
        /\ flush.result = "err" =>
             SCROBBLE_QUEUE = flush.read /\ SCROBBLE_QUEUE' = flush.read
        /\ flush.result = "ok" =>
             SCROBBLE_QUEUE = <<>> /\ SCROBBLE_QUEUE' = <<>>
      ]_vars

\* a flush failed while main was waiting to enqueue: the queue is still
\* what the thread read
C3_Witness ==
    /\ flush.result = "err"
    /\ lock = "flush"
    /\ Len(flush.read) = 1
    /\ SCROBBLE_QUEUE = flush.read
    /\ pc = "enqueue"

C5_Batching ==
    flush.result = "pending" =>
      /\ Len(flush.read) = 1 =>
           flush.calls = << [kind |-> "scrobble",
                             batch |-> <<as_scrobble(flush.read[1])>>] >>
      /\ Len(flush.read) >= 2 =>
           /\ Len(flush.calls) = 1
           /\ flush.calls[1].kind = "scrobble_batch"
           /\ Len(flush.calls[1].batch) = Len(flush.read)
           /\ \A i \in 1..Len(flush.read) :
                flush.calls[1].batch[i] = as_scrobble(flush.read[i])

\* a batch of two different tracks is in flight
C5_Witness ==
    /\ flush.result = "pending"
    /\ Len(flush.read) = 2
    /\ ~eq(flush.read[1], flush.read[2])

\* C6: at-least-once delivery. Under Fairness, whenever scrobbles that failed in
\* the poll loop are undelivered, later none is: each has been in a successful
\* flush call (nothing else takes a scrobble out of undelivered) and is out of the
\* queue.
C6_Delivered ==
    (undelivered # <<>>) ~> (undelivered = <<>> /\ SCROBBLE_QUEUE = <<>>)

\* a batch of two failed scrobbles was flushed after Last.fm recovered
C6_Witness ==
    /\ accepting
    /\ flush.result = "ok"
    /\ Len(flush.read) = 2
    /\ undelivered = <<>>
    /\ SCROBBLE_QUEUE = <<>>

\* C7: no flush thread makes a scrobble_batch call of fewer than two entries, and
\* none makes a call for an empty queue.
C7_BatchOnlyForTwo ==
    flush.result = "pending" =>
      /\ \A k \in 1..Len(flush.calls) :
           flush.calls[k].kind = "scrobble_batch" => Len(flush.calls[k].batch) >= 2
      /\ flush.read = <<>> => flush.calls = <<>>

\* C8 as stated: main never waits for the queue lock while a flush thread holds
\* it across its call.
C8_NeverBlocked ==
    ~(pc \in {"push", "enqueue"} /\ lock = "flush" /\ flush.result = "pending")

\* the steps of main that take no lock
Unlocked == Sleep \/ SleepDue \/ Poll \/ get_player_wait \/ get_player

\* C8, amended: the lock is held exactly from a flush thread's read of the queue,
\* across its call, to the end of the thread;
\* main can wait behind it only at its two lock acquisitions (the non-empty check
\* and the failure enqueue), and is there again free to go once the call has
\* returned; everywhere else in the iteration main goes on, whoever holds the lock.
C8_BlockedOnlyAtLock ==
    /\ lock = "flush" <=> flush.result # "none"
    /\ pc \notin {"push", "enqueue"} => ENABLED Unlocked
    /\ (pc = "enqueue" /\ lock = "free") => ENABLED scrobble_enqueue
    /\ (pc = "push" /\ lock = "free" /\ Alive < MaxFlush) => ENABLED push_queued_scrobbles

\* main waits to enqueue a failed scrobble while a flush call is pending
C8_Witness ==
    /\ pc = "enqueue"
    /\ lock = "flush"
    /\ flush.result = "pending"

\* C9: the step that makes the now_playing() call makes that one call, leaves the
\* queue alone, ends the iteration and leaves the observed track as the tune with
\* playing_for 0 and not scrobbled, whether the call failed or not; no further
\* call follows in the iteration.
C9_AnnounceFailureIgnored ==
    [][ /\ Calls("now_playing") =>
             /\ Len(calls') = 1
             /\ SCROBBLE_QUEUE' = SCROBBLE_QUEUE
             /\ undelivered' = undelivered
             /\ pc' = "sleep"
             /\ tune' = observed'.currently_playing[1].track
             /\ tune'[1].playing_for = 0
             /\ ~tune'[1].scrobbled
        /\ (calls # <<>> /\ calls[1].op = "now_playing") =>
             (calls' = calls \/ (calls' = <<>> /\ pc = "sleep"))
      ]_vars

\* an iteration whose now_playing() failed replaced a tune that had played
C9_Witness ==
    /\ calls # <<>> /\ calls[1].op = "now_playing" /\ ~calls[1].ok
    /\ tune # <<>>
    /\ as_scrobble(tune[1]) = calls[1].scrobble
    /\ tune[1].playing_for = 0
    /\ SCROBBLE_QUEUE # <<>>
    /\ ~eq(Last(SCROBBLE_QUEUE), tune[1])

\* C10: status gating. An iteration that sees Stopped leaves no tune and makes no
\* call, whatever the tune was; and an iteration that starts without a tune and
\* derives a track makes it the tune with playing_for 0, not scrobbled.
C10_StoppedResets ==
    [][ /\ (Observes /\ observed'.status = "Stopped") =>
             /\ tune' = <<>>
             /\ calls' = <<>>
             /\ pc' = "sleep"
             /\ SCROBBLE_QUEUE' = SCROBBLE_QUEUE
        /\ (Observes /\ tune = <<>> /\ observed'.currently_playing # <<>>
              /\ observed'.currently_playing[1].track # <<>>) =>
             /\ tune' = observed'.currently_playing[1].track
             /\ tune'[1].playing_for = 0
             /\ ~tune'[1].scrobbled
             /\ Len(calls') = 1 /\ calls'[1].op = "now_playing"
      ]_vars

\* an iteration saw Stopped after a tune had been scrobbled into the queue
C10_Witness ==
    /\ observed.status = "Stopped"
    /\ observed.running
    /\ tune = <<>>
    /\ submits = 0
    /\ SCROBBLE_QUEUE # <<>>

\* the tune the iteration that ends with this step went into its match on the
\* status with: main's tune, or none after the player was replaced (line 239)
Tracked == IF observed'.running THEN tune ELSE <<>>

\* this step derived a Track from the player's metadata
Derived ==
    /\ Observes
    /\ observed'.status = "Playing"
    /\ observed'.currently_playing # <<>>
    /\ observed'.currently_playing[1].track # <<>>

\* the Track this step derived
CurrentlyPlaying == observed'.currently_playing[1].track[1]

\* artist and title of a and b are the same
SameIdentity(a, b) == a.artist = b.artist /\ a.track = b.track

\* C11 as stated: every iteration that sees a status other than Playing leaves no
\* tune, reads no metadata and makes no call.
C11_NotPlayingIdle ==
    [][ (Observes /\ observed'.status # "Playing") =>
          /\ tune' = <<>>
          /\ observed'.currently_playing = <<>>
          /\ calls' = <<>>
      ]_vars

\* C11, amended: an iteration that sees a status other than Playing reads no
\* metadata, makes no call and leaves the queue alone; it leaves no tune only
\* when the status is Stopped, and leaves the tune as it was, playing_for and
\* scrobbled included, when the status is Paused, another one or a query error.
C11_NotPlayingSkips ==
    [][ (Observes /\ observed'.status # "Playing") =>
          /\ observed'.currently_playing = <<>>
          /\ calls' = <<>>
          /\ pc' = "sleep"
          /\ SCROBBLE_QUEUE' = SCROBBLE_QUEUE
          /\ undelivered' = undelivered
          /\ tune' = IF observed'.status = "Stopped" THEN <<>> ELSE Tracked
      ]_vars

\* an iteration whose status query failed kept a tune that had been scrobbled
C11_Witness ==
    /\ observed.status = "Error"
    /\ observed.running
    /\ tune # <<>>
    /\ tune[1].scrobbled
    /\ tune[1].playing_for >= SCROBBLE_THRESHOLD

\* C12: an iteration that sees Playing and then fails to read the metadata, or
\* to derive a Track from it, leaves the tune it tracked as it was (playing_for
\* and scrobbled included), leaves the queue alone and makes no call.
C12_MetadataFailureSkips ==
    [][ (Observes /\ observed'.status = "Playing"
           /\ (\/ observed'.currently_playing = <<>>
               \/ observed'.currently_playing[1].track = <<>>)) =>
          /\ tune' = Tracked
          /\ calls' = <<>>
          /\ pc' = "sleep"
          /\ SCROBBLE_QUEUE' = SCROBBLE_QUEUE
          /\ undelivered' = undelivered
      ]_vars

\* a derivation failed with MissingMetadata while a tune was tracked
C12_Witness ==
    /\ observed.status = "Playing"
    /\ observed.running
    /\ observed.currently_playing # <<>>
    /\ observed.currently_playing[1].err = <<"artist split from title">>
    /\ tune # <<>>
    /\ tune[1].playing_for > 0
    /\ ~tune[1].scrobbled

\* C13: identity equality. For any two Tracks, eq answers TRUE exactly when their
\* artists are equal and their titles are equal, whatever their albums, scrobbled
\* flags and playing_for; and the match of line 271 takes the same-tune arm (no
\* new tune, no announcement) exactly then.
C13_IdentityEquality ==
    (pair # <<>> /\ result # <<>>) =>
      LET same == pair[1].artist = pair[2].artist /\ pair[1].track = pair[2].track
      IN  /\ result[1].eq <=> same
          /\ result[1].same_tune <=> same

\* two tracks that differ in album, scrobbled and playing_for compared equal
C13_Witness ==
    /\ pair # <<>> /\ result # <<>>
    /\ result[1].eq /\ result[1].same_tune
    /\ pair[1].album # pair[2].album
    /\ pair[1].scrobbled # pair[2].scrobbled
    /\ pair[1].playing_for # pair[2].playing_for

\* " - " is in s at position i
SeparatorAt(s, i) == i + 2 <= Len(s) /\ s[i] = " " /\ s[i + 1] = "-" /\ s[i + 2] = " "

\* C14: derivation fallback. Without a title try_from fails with
\* MissingMetadata("title"). With a title and no artist: if " - " is nowhere in the
\* title it fails with MissingMetadata("artist split from title"); otherwise the
\* artist is what is left of the first " - ", without a leading "▶ ", and the title
\* is all that is right of it. A derived Track is not scrobbled and has playing_for 0.
C14_Fallback ==
    (metadata # <<>> /\ result # <<>>) =>
      LET m == metadata[1]
          r == result[1]
      IN  /\ m.title = <<>> => (r.err = <<"title">> /\ r.track = <<>>)
          /\ (m.title # <<>> /\ m.artists = <<>>) =>
               LET title == m.title[1] IN
               /\ (\A i \in 1..Len(title) : ~SeparatorAt(title, i)) =>
                    (r.err = <<"artist split from title">> /\ r.track = <<>>)
               /\ \A i \in 1..Len(title) :
                    (SeparatorAt(title, i) /\ \A j \in 1..(i - 1) : ~SeparatorAt(title, j)) =>
                      LET left == SubSeq(title, 1, i - 1) IN
                      /\ r.err = <<>>
                      /\ r.track # <<>>
                      /\ r.track[1].artist =
                             IF Len(left) >= 2 /\ left[1] = "▶" /\ left[2] = " "
                             THEN SubSeq(left, 3, Len(left))
                             ELSE left
                      /\ r.track[1].track = SubSeq(title, i + 3, Len(title))
          /\ r.track # <<>> => (~r.track[1].scrobbled /\ r.track[1].playing_for = 0)

\* a title with the plex prefix, without artists, was split
C14_Witness ==
    /\ metadata # <<>> /\ result # <<>>
    /\ metadata[1].artists = <<>>
    /\ metadata[1].title = << <<"▶", " ", "B", " ", "-", " ", "B">> >>
    /\ result[1].track # <<>>
    /\ result[1].track[1].artist = <<"B">>
    /\ result[1].track[1].track = <<"B">>

\* C15: new-track transition. An iteration that derives a Track other than the
\* tune it tracks (or tracks none) makes exactly one call, now_playing of the
\* derived Track, and leaves it as the tune with playing_for 0, not scrobbled and
\* without a scrobble() made for it; one that derives the Track it tracks makes no
\* now_playing call and keeps the tune and its time.
C15_NewTrackAnnounced ==
    [][ Derived =>
          IF Tracked # <<>> /\ SameIdentity(Tracked[1], CurrentlyPlaying)
          THEN /\ \A k \in 1..Len(calls') : calls'[k].op # "now_playing"
               /\ tune' # <<>>
               /\ SameIdentity(tune'[1], Tracked[1])
               /\ tune'[1].album = Tracked[1].album
               /\ tune'[1].playing_for >= Tracked[1].playing_for
          ELSE /\ Len(calls') = 1
               /\ calls'[1].op = "now_playing"
               /\ calls'[1].scrobble = as_scrobble(CurrentlyPlaying)
               /\ tune' = <<CurrentlyPlaying>>
               /\ tune'[1].playing_for = 0
               /\ ~tune'[1].scrobbled
               /\ submits' = 0
      ]_vars

\* a track was announced in place of a tune whose scrobble had been queued
C15_Witness ==
    /\ calls # <<>> /\ calls[1].op = "now_playing" /\ calls[1].ok
    /\ observed.running
    /\ tune # <<>>
    /\ tune[1].playing_for = 0
    /\ calls[1].scrobble = as_scrobble(tune[1])
    /\ SCROBBLE_QUEUE # <<>>
    /\ ~eq(Last(SCROBBLE_QUEUE), tune[1])

\* C16: skips are never counted. A scrobble() call of the poll loop is made only
\* by an iteration that derives the Track it tracks, not yet scrobbled, and brings
\* its playing_for to SCROBBLE_THRESHOLD or more, and it is the only call of the
\* iteration; and when a tune with playing_for below the threshold stops being the
\* tune (another track or the same one announced, Stopped, the player replaced), no
\* scrobble() was made for it, none is made by that step, and nothing of it is in
\* or on its way into the queue.
C16_SkipsNotCounted ==
    [][ /\ Calls("scrobble") =>
             /\ Derived
             /\ observed'.running
             /\ tune # <<>>
             /\ SameIdentity(tune[1], CurrentlyPlaying)
             /\ ~tune[1].scrobbled
             /\ tune'[1].playing_for >= SCROBBLE_THRESHOLD
             /\ calls'[1].scrobble = as_scrobble(tune[1])
             /\ Len(calls') = 1
        /\ (calls' # calls /\ calls' # <<>>) => Observes
        /\ (/\ tune # <<>>
            /\ tune[1].playing_for < SCROBBLE_THRESHOLD
            /\ (tune' = <<>> \/ Calls("now_playing"))) =>
             /\ submits = 0
             /\ pc # "enqueue"
             /\ ~Calls("scrobble")
             /\ SCROBBLE_QUEUE' = SCROBBLE_QUEUE
             /\ undelivered' = undelivered
      ]_vars

\* the player went away while a tune had played for less than the threshold
C16_Witness ==
    /\ pc = "find"
    /\ since_last_check = WAIT_FOR_PLAYER_TIME
    /\ tune # <<>>
    /\ tune[1].playing_for > 0
    /\ tune[1].playing_for < SCROBBLE_THRESHOLD
    /\ submits = 0
    /\ undelivered = <<>>

\* C17: pause does not advance playing_for. An iteration that sees Paused leaves
\* the tune it tracks as it was and makes no call, and the time since the
\* iteration before goes out of what playing_for can get (last_check = now); while
\* the tune stays the tune, time that is out never comes back in; and an
\* iteration that derives the Track it tracks adds to its playing_for exactly the
\* time since the iteration before.
C17_PauseKeepsPlayingFor ==
    [][ /\ (Observes /\ observed'.status = "Paused") =>
             /\ tune' = Tracked
             /\ calls' = <<>>
             /\ observed'.running => since_last_check' = 0
             /\ (observed'.running /\ tune # <<>>) =>
                  LET out == unplayed + since_last_check - (carried - carried')
                  IN  unplayed' = IF out < MaxUnplayed THEN out ELSE MaxUnplayed
        /\ (tune # <<>> /\ tune' # <<>> /\ ~Calls("now_playing")) =>
             unplayed' >= unplayed
        /\ (Derived /\ Tracked # <<>> /\ SameIdentity(Tracked[1], CurrentlyPlaying)) =>
             tune'[1].playing_for = tune[1].playing_for + since_last_check
      ]_vars

\* a tune that had played was seen Paused, and was left with its time
C17_Witness ==
    /\ observed.status = "Paused"
    /\ observed.running
    /\ tune # <<>>
    /\ tune[1].playing_for > 0
    /\ ~tune[1].scrobbled
    /\ unplayed = MaxUnplayed
    /\ since_last_check = 0

\* C18: player disappearance. An iteration that finds the player not running
\* stays in get_player(), where it makes no call and looks at no track, until a
\* player is found; the rest of the iteration then runs without a tune, whatever
\* the tune was: a derived Track, the former tune's included, is announced and
\* becomes the tune with playing_for 0, not scrobbled, and without one there is
\* no tune.
C18_PlayerReplaced ==
    [][ /\ (pc = "poll" /\ pc' = "find") =>
             (tune' = tune /\ calls' = calls /\ observed' = observed)
        /\ (pc = "find" /\ pc' = "find") =>
             (tune' = tune /\ calls' = calls /\ observed' = observed)
        /\ (pc = "find" /\ pc' # "find") =>
             /\ Observes
             /\ ~observed'.running
             /\ pc' = "sleep"
             /\ IF Derived
                THEN /\ Len(calls') = 1
                     /\ calls'[1].op = "now_playing"
                     /\ calls'[1].scrobble = as_scrobble(CurrentlyPlaying)
                     /\ tune' = <<CurrentlyPlaying>>
                     /\ tune'[1].playing_for = 0
                     /\ ~tune'[1].scrobbled
                     /\ submits' = 0
                ELSE tune' = <<>> /\ calls' = <<>>
        /\ (Observes /\ ~observed'.running) => pc = "find"
      ]_vars

\* after a wait for a player, a track whose scrobble is in the queue was
\* announced again
C18_Witness ==
    /\ ~observed.running
    /\ observed.status = "Playing"
    /\ since_last_check = WAIT_FOR_PLAYER_TIME
    /\ calls # <<>> /\ calls[1].op = "now_playing"
    /\ tune # <<>>
    /\ tune[1].playing_for = 0
    /\ SCROBBLE_QUEUE # <<>>
    /\ eq(Last(SCROBBLE_QUEUE), tune[1])

\* C19: flush threads are serialized by the lock. A flush thread reads the queue
\* only when no other is between its read and the end of its closure, and while
\* one is, no spawned thread gets past the lock; what a thread reads is the queue
\* of that moment, which holds the scrobbles that failed since the last successful
\* flush call and nothing else (all but the one main may still be waiting to
\* append).
C19_FlushSerialized ==
    [][ /\ (flush'.result = "pending" /\ flush.result # "pending") =>
             /\ lock = "free"
             /\ flush = NoFlush
             /\ flush'.read = SCROBBLE_QUEUE
        /\ flush.result # "none" =>
             /\ spawned' >= spawned
             /\ flush' = NoFlush \/ flush'.read = flush.read
        /\ flush'.result = "pending" =>
             /\ Len(flush'.read) <= Len(undelivered')
             /\ Scrobbles(flush'.read) = SubSeq(undelivered', 1, Len(flush'.read))
             /\ Len(undelivered') <= Len(flush'.read) + 1
      ]_vars

\* a thread that waited for the lock while another thread's flush succeeded has
\* locked the queue and read it drained
C19_Witness ==
    /\ lock = "flush"
    /\ flush.result = "pending"
    /\ flush.read = <<>>
    /\ undelivered = <<>>

\* the time since the tune became main's tune, as long as unplayed is below
\* MaxUnplayed
SinceTune == tune[1].playing_for + since_last_check + unplayed - carried

\* C20: the playing_for of the tune is at most the time since it became the tune;
\* so it reaches SCROBBLE_THRESHOLD no sooner than that long after.
C20_PlayingForWithinSession ==
    (tune # <<>> /\ unplayed < MaxUnplayed) =>
      /\ tune[1].playing_for <= SinceTune
      /\ tune[1].playing_for >= SCROBBLE_THRESHOLD => SinceTune >= SCROBBLE_THRESHOLD

====
